---- MODULE Spec2Model ----
(***************************************************************************)
(* A model of the Optimiser of leidenalg (src/src/leidenalg/Optimiser.cpp) *)
(* on small weighted graphs: the local-move and merge routines, and the    *)
(* multi-level drivers.  The partition (membership, n_communities,         *)
(* diff_move, move_node, quality, aggregate) and the PRNG are not part of  *)
(* the sources at hand; they are modelled from the specification, with the *)
(* CPM quality  Q = SUM_c [ w_in(c) - gamma * n(c)^2 ]  in integers.       *)
(***************************************************************************)
EXTENDS Integers, Sequences, FiniteSets, TLC

(***************************************************************************)
(* Bounds of the model.                                                    *)
(***************************************************************************)
NumSeeds == 2
MaxIterations == 2
MaxCommSizeArg == 1
MaxLayers == 2
MaxOtherUses == 1

(***************************************************************************)
(* Graphs.  A graph is [n, nw, w]: n vertices 0..n-1, node weights nw, and *)
(* weights w on the pairs <<u, v>> with u <= v (w[<<v, v>>] is the         *)
(* self-loop of v, which on a quotient graph holds the within-community    *)
(* weight).                                                                *)
(***************************************************************************)
Vertices(g) == 0 .. (g.n - 1)

PairsOf(n) == {pr \in (0 .. (n - 1)) \X (0 .. (n - 1)) : pr[1] <= pr[2]}

MkGraph(n, E) ==
  [n  |-> n,
   nw |-> [v \in 0 .. (n - 1) |-> 1],
   w  |-> [pr \in PairsOf(n) |->
             IF \E e \in E : e[1] = pr[1] /\ e[2] = pr[2]
               THEN (CHOOSE e \in E : e[1] = pr[1] /\ e[2] = pr[2])[3]
               ELSE 0]]

Triangle == MkGraph(3, {<<0, 1, 3>>, <<0, 2, 3>>, <<1, 2, 3>>})
Skewed == MkGraph(3, {<<0, 1, 3>>, <<0, 2, 2>>, <<1, 2, 5>>})
Isolated == MkGraph(3, {})

Graphs == {Triangle, Skewed, Isolated}

weight(g, u, v) == IF u <= v THEN g.w[<<u, v>>] ELSE g.w[<<v, u>>]

RECURSIVE SumF(_, _)
SumF(f, S) ==
  IF S = {} THEN 0
  ELSE LET x == CHOOSE y \in S : TRUE IN f[x] + SumF(f, S \ {x})

(***************************************************************************)
(* The partition: [g, membership, ncomm].                                  *)
(***************************************************************************)
resolution_parameter == 1

MaxOf(S) == CHOOSE x \in S : \A y \in S : y <= x

create(g, membership) ==
  [g |-> g, membership |-> membership,
   ncomm |-> IF g.n = 0 THEN 0 ELSE MaxOf({membership[v] : v \in Vertices(g)}) + 1]

vcount(p) == p.g.n

n_communities(p) == p.ncomm

csize(p, c) ==
  SumF([v \in Vertices(p.g) |-> IF p.membership[v] = c THEN p.g.nw[v] ELSE 0],
       Vertices(p.g))

total_weight_in_comm(p, c) ==
  SumF([pr \in PairsOf(p.g.n) |->
          IF p.membership[pr[1]] = c /\ p.membership[pr[2]] = c
            THEN p.g.w[pr] ELSE 0],
       PairsOf(p.g.n))

quality(p) ==
  LET used == {p.membership[v] : v \in Vertices(p.g)}
  IN SumF([c \in used |->
             total_weight_in_comm(p, c)
               - resolution_parameter * csize(p, c) * csize(p, c)],
          used)

move_node(p, v, c) ==
  [p EXCEPT !.membership[v] = c,
            !.ncomm = IF c >= p.ncomm THEN c + 1 ELSE p.ncomm]

diff_move(p, v, c) == quality(move_node(p, v, c)) - quality(p)

RECURSIVE NeighCommsFrom(_, _, _, _)
NeighCommsFrom(p, v, u, acc) ==
  IF u >= vcount(p) THEN acc
  ELSE LET c == p.membership[u]
           seen == \E k \in 1 .. Len(acc) : acc[k] = c
       IN NeighCommsFrom(p, v, u + 1,
            IF weight(p.g, v, u) # 0 /\ ~seen THEN Append(acc, c) ELSE acc)

get_neigh_comm_weights(p, v) == NeighCommsFrom(p, v, 0, <<>>)

(***************************************************************************)
(* The PRNG of the optimiser: rng_init seeds it from rng_seed, and         *)
(* rng_shuffle draws one number and permutes the vector with it.           *)
(***************************************************************************)
Seeds == 0 .. (NumSeeds - 1)

rng_init(seed) == (2 * seed) % 7

rng_next(r) == (3 * r + 1) % 7

RECURSIVE Factorial(_)
Factorial(n) == IF n <= 1 THEN 1 ELSE n * Factorial(n - 1)

RemoveAt(s, k) == SubSeq(s, 1, k - 1) \o SubSeq(s, k + 1, Len(s))

RECURSIVE Permute(_, _)
Permute(items, k) ==
  IF Len(items) = 0 THEN <<>>
  ELSE LET f == Factorial(Len(items) - 1)
           idx == (k \div f) + 1
       IN <<items[idx]>> \o Permute(RemoveAt(items, idx), k % f)

range(n) == [k \in 1 .. n |-> k - 1]

rng_shuffle(vec, r) == Permute(vec, r % Factorial(Len(vec)))

(***************************************************************************)
(* The body of the loops over nodes_to_visit.  best is [comm, gain]: the   *)
(* pair (comm_to, max_q_gain) of the code.                                 *)
(***************************************************************************)
\* The values of consider_comms the calls are made with (RAND_COMM is handled
\* by the code exactly as RAND_NEIGH_COMM is).
ConsiderComms == {"ALL_COMMS", "ALL_NEIGH_COMMS", "RAND_NEIGH_COMM"}

\* IsBetter with the comparison reversed.
IsBetterReversed(q_gain, max_q_gain) == q_gain < max_q_gain

\* IsBetter with >= for >.
IsBetterOrEqual(q_gain, max_q_gain) == q_gain >= max_q_gain

IsBetter(q_gain, max_q_gain) == q_gain > max_q_gain

RECURSIVE ScoreComms(_, _, _, _)
ScoreComms(p, i, comms, best) ==
  IF Len(comms) = 0 THEN best
  ELSE LET c == Head(comms)
           q_gain == diff_move(p, i, c)
       IN ScoreComms(p, i, Tail(comms),
            IF IsBetter(q_gain, best.gain) THEN [comm |-> c, gain |-> q_gain]
            ELSE best)

RECURSIVE OtherCommsFrom(_, _, _)
OtherCommsFrom(p, comm_from, c) ==
  IF c >= n_communities(p) THEN <<>>
  ELSE (IF c # comm_from THEN <<c>> ELSE <<>>) \o OtherCommsFrom(p, comm_from, c + 1)

AllOtherComms(p, comm_from) == OtherCommsFrom(p, comm_from, 0)

\* EmptyCommAllowed off by one.
EmptyCommAllowedOffByOne(p) == n_communities(p) <= vcount(p)

EmptyCommAllowed(p) == n_communities(p) < vcount(p)

\* ScoreEmpty without the test of consider_empty_community.
ScoreEmptyAlways(p, i, best, consider_empty) ==
  IF EmptyCommAllowed(p)
    THEN ScoreComms(p, i, <<n_communities(p)>>, best)
    ELSE best

ScoreEmpty(p, i, best, consider_empty) ==
  IF consider_empty /\ EmptyCommAllowed(p)
    THEN ScoreComms(p, i, <<n_communities(p)>>, best)
    ELSE best

\* IsSkipped without the test of is_membership_fixed.
IsSkippedNever(fixed, i) == FALSE

IsSkipped(fixed, i) == fixed[i]

Stay(p) == [p |-> p, moved |-> FALSE]

Moved(p, i, c) == [p |-> move_node(p, i, c), moved |-> TRUE]

\* StartBest with a max_q_gain below every gain.
StartBestNegative(comm_from) == [comm |-> comm_from, gain |-> -100]

\* comm_to = comm_from; max_q_gain = 0.0
StartBest(comm_from) == [comm |-> comm_from, gain |-> 0]

\* The existing communities that move_nodes_impl scores for vertex i, in the
\* order it scores them.
ScoredImpl(p, i) == get_neigh_comm_weights(p, i)

\* The existing communities that the 4-argument move_nodes and merge_nodes
\* score for vertex i under the argument consider_comms = cc.
Scored4(p, i, cc) ==
  IF cc = "ALL_NEIGH_COMMS" THEN get_neigh_comm_weights(p, i)
  ELSE IF cc = "ALL_COMMS" THEN AllOtherComms(p, p.membership[i])
  ELSE <<>>

\* The existing communities that the 2-argument merge_nodes scores for vertex
\* i; cc is the consider_comms of the optimiser.
ScoredMerge(p, i, cc) ==
  get_neigh_comm_weights(p, i)
    \o (IF cc = "ALL_COMMS" THEN AllOtherComms(p, p.membership[i]) ELSE <<>>)

\* One iteration of the for loop of move_nodes_impl.
VisitImpl(p, fixed, i, consider_empty) ==
  IF IsSkipped(fixed, i) THEN Stay(p)
  ELSE LET comm_from == p.membership[i]
           b1 == ScoreComms(p, i, ScoredImpl(p, i), StartBest(comm_from))
           b2 == ScoreEmpty(p, i, b1, consider_empty)
       IN IF b2.comm # comm_from THEN Moved(p, i, b2.comm) ELSE Stay(p)

\* One iteration of the for loop of the 4-argument move_nodes and merge_nodes.
Visit4(p, fixed, i, consider_empty, cc) ==
  IF IsSkipped(fixed, i) THEN Stay(p)
  ELSE LET comm_from == p.membership[i]
           b1 == ScoreComms(p, i, Scored4(p, i, cc), StartBest(comm_from))
           b2 == ScoreEmpty(p, i, b1, consider_empty)
       IN IF b2.comm # comm_from /\ b2.gain > 0 THEN Moved(p, i, b2.comm)
          ELSE Stay(p)

\* One iteration of the for loop of the 2-argument merge_nodes; cc is the
\* consider_comms of the optimiser.
VisitMerge(p, fixed, i, consider_empty, cc) ==
  IF IsSkipped(fixed, i) THEN Stay(p)
  ELSE LET comm_from == p.membership[i]
           b1 == ScoreComms(p, i, ScoredMerge(p, i, cc), StartBest(comm_from))
           b2 == ScoreEmpty(p, i, b1, consider_empty)
       IN IF b2.comm # comm_from /\ b2.gain > 0 THEN Moved(p, i, b2.comm)
          ELSE Stay(p)

(***************************************************************************)
(* aggregate: the quotient graph of a partition, one super-node per used   *)
(* community (in increasing community index), with every super-node in a   *)
(* community of its own.                                                   *)
(***************************************************************************)
UsedComms(p) == {p.membership[v] : v \in Vertices(p.g)}

SuperNode(p, c) == Cardinality({d \in UsedComms(p) : d < c})

CommOfSuperNode(p, s) == CHOOSE c \in UsedComms(p) : SuperNode(p, c) = s

weight_between(p, c1, c2) ==
  SumF([pr \in PairsOf(p.g.n) |->
          IF \/ (p.membership[pr[1]] = c1 /\ p.membership[pr[2]] = c2)
             \/ (p.membership[pr[1]] = c2 /\ p.membership[pr[2]] = c1)
            THEN p.g.w[pr] ELSE 0],
       PairsOf(p.g.n))

collapse_graph(p) ==
  LET k == Cardinality(UsedComms(p))
  IN [n  |-> k,
      nw |-> [s \in 0 .. (k - 1) |-> csize(p, CommOfSuperNode(p, s))],
      w  |-> [pr \in PairsOf(k) |->
                weight_between(p, CommOfSuperNode(p, pr[1]), CommOfSuperNode(p, pr[2]))]]

aggregate(p) ==
  LET cg == collapse_graph(p)
  IN create(cg, [s \in Vertices(cg) |-> s])

copy(p) == p

\* ResetHierarchy without the clear.
ResetHierarchyNoClear(h, p) == Append(h, copy(p))

\* hierarchy.clear(); hierarchy.push_back(partition->copy())
ResetHierarchy(h, p) == <<copy(p)>>

\* PushHierarchy at the front.
PushHierarchyFront(h, new_partition) == <<copy(new_partition)>> \o h

\* hierarchy.push_back(new_partition->copy_from_graph(partition->g))
PushHierarchy(h, new_partition) == Append(h, copy(new_partition))

\* DeltaOf without the initial quality.
DeltaOfAbsolute(p, q0) == quality(p)

\* return partition->quality() - initial_quality
DeltaOf(p, q0) == quality(p) - q0

(***************************************************************************)
(* The state.                                                              *)
(***************************************************************************)
VARIABLES
  consider_comms,            \* Optimiser::consider_comms
  consider_empty_community,  \* Optimiser::consider_empty_community
  optimise_routine,          \* Optimiser::optimise_routine
  rng_seed,                  \* the configured seed
  rng,                       \* the state of the PRNG
  parts,                     \* the partition objects; an object is its index
  partitions,                \* the caller's vector of partitions (objects)
  layer_weights,             \* the caller's vector of layer weights
  hierarchy,                 \* the caller's hierarchy vector (snapshots)
  is_membership_fixed,       \* the is_membership_fixed argument
  driver,                    \* the driver running, or "none"
  routine,                   \* the routine running
  arg_consider_comms,        \* the consider_comms argument of the 4-argument forms
  max_comm_size,             \* the max_comm_size argument of the 5-argument forms
  n_iterations,              \* the n_iterations argument of optimise_partition
  cur,                       \* the local pointer `partition`
  pc,                        \* where the call stands
  nodes_to_visit,            \* the visit order of the pass
  i_node,                    \* the index of the for loop
  improvement,               \* whether the pass has moved a vertex
  initial_quality,           \* quality() at the start of the routine
  ret,                       \* the value the routine or driver returned
  was_improvement,           \* the driver's was_improvement
  iter,                      \* the driver's counter i
  \* history of the run, read by the properties only
  membership_initial,        \* the membership the caller passed
  invocations,               \* calls of the optimise routine by the driver
  pass_quality,              \* quality() at the start of the pass
  last_move,                 \* what the last visit did
  node_map,                  \* base vertex -> vertex of the level of cur
  run,                       \* 1, or 2 in the repetition of a driver call
  first_result,              \* the outcome of the first run of a driver
  improvements,              \* invocations of the driver that returned a delta > 0
  moved                      \* the vertices moved since the routine was entered

optimiser == <<consider_comms, consider_empty_community, optimise_routine, rng_seed>>
world == <<parts, partitions, layer_weights, hierarchy>>
args == <<is_membership_fixed, arg_consider_comms, max_comm_size, n_iterations>>
frame == <<driver, routine, cur, nodes_to_visit, i_node, improvement,
           initial_quality, ret, was_improvement, iter>>
caller == <<membership_initial, invocations, pass_quality, last_move, node_map,
            run, first_result, improvements>>
history == <<caller, moved>>
vars == <<optimiser, rng, world, args, frame, pc, history>>

InitMemberships(g) ==
  {m \in [Vertices(g) -> Vertices(g)] : \A v \in Vertices(g) : m[v] <= v}

FixedVectors(n) == [0 .. (n - 1) -> BOOLEAN]

NoneFixed(n) == [v \in 0 .. (n - 1) |-> FALSE]

NoMove == [node |-> -1, from |-> -1, to |-> -1, ncomm |-> -1]

Base == parts[1]

Init ==
  /\ \E g \in Graphs : \E m \in InitMemberships(g) :
       /\ parts = <<create(g, m)>>
       /\ membership_initial = m
       /\ is_membership_fixed = NoneFixed(g.n)
       /\ node_map = [v \in Vertices(g) |-> v]
  /\ consider_comms = "ALL_NEIGH_COMMS"
  /\ consider_empty_community \in BOOLEAN
  /\ optimise_routine = "MOVE_NODES"
  /\ rng_seed \in Seeds
  /\ rng = rng_init(rng_seed)
  /\ partitions = <<1>>
  /\ layer_weights = <<1>>
  /\ hierarchy = <<>>
  /\ arg_consider_comms = "ALL_NEIGH_COMMS"
  /\ max_comm_size = 0
  /\ n_iterations = -1
  /\ driver = "none"
  /\ routine = "none"
  /\ cur = 1
  /\ pc = "idle"
  /\ nodes_to_visit = <<>>
  /\ i_node = 0
  /\ improvement = FALSE
  /\ initial_quality = 0
  /\ ret = 0
  /\ was_improvement = FALSE
  /\ iter = 0
  /\ invocations = 0
  /\ pass_quality = 0
  /\ last_move = NoMove
  /\ run = 1
  /\ first_result = <<>>
  /\ improvements = 0
  /\ moved = {}

(***************************************************************************)
(* Calls of the routines.  A call chooses its arguments; the overloads     *)
(* that delegate set the arguments they pass on.                           *)
(***************************************************************************)
Loops(rt) == rt \in {"move_nodes_impl", "merge_nodes", "merge_nodes4"}

\* Entry of a routine on partition p: initial_quality is taken.
StartRoutine(rt, p) ==
  /\ routine' = rt
  /\ initial_quality' = quality(p)
  /\ moved' = {}
  /\ pc' = "pass"

CallRoutine(rt, fixed, cc, mcs) ==
  /\ pc = "idle"
  /\ StartRoutine(rt, parts[cur])
  /\ is_membership_fixed' = fixed
  /\ arg_consider_comms' = cc
  /\ max_comm_size' = mcs
  /\ UNCHANGED <<optimiser, rng, world, n_iterations, driver, cur, nodes_to_visit,
                 i_node, improvement, ret, was_improvement, iter, caller>>

\* void move_nodes(partition)
MoveNodes1 ==
  CallRoutine("move_nodes_impl", NoneFixed(vcount(Base)), arg_consider_comms, 0)

\* double move_nodes(partition, is_membership_fixed); consider_comms of the
\* optimiser as set before the call
MoveNodes2 ==
  \E fixed \in FixedVectors(vcount(Base)) : \E cc \in ConsiderComms :
    /\ consider_comms' = cc
    /\ pc = "idle"
    /\ StartRoutine("move_nodes_impl", parts[cur])
    /\ is_membership_fixed' = fixed
    /\ UNCHANGED <<consider_empty_community, optimise_routine, rng_seed, rng, world,
                   arg_consider_comms, max_comm_size, n_iterations, driver, cur,
                   nodes_to_visit, i_node, improvement, ret, was_improvement, iter,
                   caller>>

\* double move_nodes(partition, consider_comms)
MoveNodesCC ==
  \E cc \in ConsiderComms :
    CallRoutine("move_nodes4", NoneFixed(vcount(Base)), cc, 0)

\* double move_nodes(partition, is_membership_fixed, consider_comms, renumber_fixed_nodes)
MoveNodes4 ==
  \E fixed \in FixedVectors(vcount(Base)) : \E cc \in ConsiderComms :
    CallRoutine("move_nodes4", fixed, cc, 0)

\* double move_nodes(..., max_comm_size): max_comm_size is passed to nothing
MoveNodes5 ==
  \E fixed \in FixedVectors(vcount(Base)) : \E cc \in ConsiderComms :
    \E mcs \in 1 .. MaxCommSizeArg :
      CallRoutine("move_nodes4", fixed, cc, mcs)

\* double merge_nodes(partition, is_membership_fixed); consider_comms of the
\* optimiser as set before the call
MergeNodes2 ==
  \E fixed \in FixedVectors(vcount(Base)) : \E cc \in ConsiderComms :
    /\ consider_comms' = cc
    /\ pc = "idle"
    /\ StartRoutine("merge_nodes", parts[cur])
    /\ is_membership_fixed' = fixed
    /\ UNCHANGED <<consider_empty_community, optimise_routine, rng_seed, rng, world,
                   arg_consider_comms, max_comm_size, n_iterations, driver, cur,
                   nodes_to_visit, i_node, improvement, ret, was_improvement, iter,
                   caller>>

\* double merge_nodes(partition, consider_comms)
MergeNodesCC ==
  \E cc \in ConsiderComms :
    CallRoutine("merge_nodes4", NoneFixed(vcount(Base)), cc, 0)

\* double merge_nodes(partition, is_membership_fixed, consider_comms, renumber_fixed_nodes)
MergeNodes4 ==
  \E fixed \in FixedVectors(vcount(Base)) : \E cc \in ConsiderComms :
    CallRoutine("merge_nodes4", fixed, cc, 0)

\* double merge_nodes(..., max_comm_size): max_comm_size is passed to nothing
MergeNodes5 ==
  \E fixed \in FixedVectors(vcount(Base)) : \E cc \in ConsiderComms :
    \E mcs \in 1 .. MaxCommSizeArg :
      CallRoutine("merge_nodes4", fixed, cc, mcs)

(***************************************************************************)
(* The passes.                                                             *)
(***************************************************************************)
\* The top of a pass: the visit order is shuffled.
Shuffle ==
  /\ pc = "pass"
  /\ nodes_to_visit' = rng_shuffle(range(vcount(parts[cur])), rng)
  /\ rng' = rng_next(rng)
  /\ i_node' = 0
  /\ improvement' = FALSE
  /\ pass_quality' = quality(parts[cur])
  /\ last_move' = NoMove
  /\ pc' = "visit"
  /\ UNCHANGED <<optimiser, world, args, driver, routine, cur, initial_quality, ret,
                 was_improvement, iter, membership_initial, invocations, node_map,
                 run, first_result, improvements, moved>>

VisitOf(rt, p, i) ==
  IF rt = "move_nodes_impl"
    THEN VisitImpl(p, is_membership_fixed, i, consider_empty_community)
  ELSE IF rt = "merge_nodes"
    THEN VisitMerge(p, is_membership_fixed, i, consider_empty_community, consider_comms)
  ELSE Visit4(p, is_membership_fixed, i, consider_empty_community, arg_consider_comms)

\* One iteration of the for loop.
Visit ==
  /\ pc = "visit"
  /\ i_node < Len(nodes_to_visit)
  /\ LET i == nodes_to_visit[i_node + 1]
         p == parts[cur]
         r == VisitOf(routine, p, i)
     IN /\ parts' = [parts EXCEPT ![cur] = r.p]
        /\ improvement' = (improvement \/ r.moved)
        /\ last_move' = IF r.moved
                          THEN [node |-> i, from |-> p.membership[i],
                                to |-> r.p.membership[i], ncomm |-> p.ncomm]
                          ELSE NoMove
        /\ moved' = IF r.moved THEN moved \cup {i} ELSE moved
  /\ i_node' = i_node + 1
  /\ UNCHANGED <<optimiser, rng, partitions, layer_weights, hierarchy, args, driver,
                 routine, cur, nodes_to_visit, initial_quality, ret, was_improvement,
                 iter, pc, membership_initial, invocations, pass_quality, node_map,
                 run, first_result, improvements>>

\* The for loop is over and the while loop goes on.
NextPass ==
  /\ pc = "visit"
  /\ i_node = Len(nodes_to_visit)
  /\ Loops(routine) /\ improvement
  /\ pc' = "pass"
  /\ UNCHANGED <<optimiser, rng, world, args, driver, routine, cur, nodes_to_visit,
                 i_node, improvement, initial_quality, ret, was_improvement, iter,
                 history>>

\* The routine returns quality() - initial_quality.
Return ==
  /\ pc = "visit"
  /\ i_node = Len(nodes_to_visit)
  /\ ~(Loops(routine) /\ improvement)
  /\ ret' = DeltaOf(parts[cur], initial_quality)
  /\ pc' = IF driver = "none" THEN "done" ELSE "returned"
  /\ UNCHANGED <<optimiser, rng, world, args, driver, routine, cur, nodes_to_visit,
                 i_node, improvement, initial_quality, was_improvement, iter, history>>

(***************************************************************************)
(* The drivers.                                                            *)
(***************************************************************************)
\* The configurations the drivers are run with: optimise_routine, and the
\* consider_comms that merge_nodes reads.
DriverConfigs ==
  {[routine |-> "MOVE_NODES", cc |-> "ALL_NEIGH_COMMS"]}
    \cup {[routine |-> "MERGE_NODES", cc |-> cc] : cc \in ConsiderComms}

RoutineOf(r) == IF r = "MOVE_NODES" THEN "move_nodes_impl" ELSE "merge_nodes"

\* SetupOptimiser without the call of rng_init.
SetupOptimiserMissing == rng' = rng

\* "Setup optimiser": this->rng_init()
SetupOptimiser == rng' = rng_init(rng_seed)

\* A call of optimise_partition with its arguments and the configuration set
\* before it.
OptimisePartitionEntry(n, fixed, cfg) ==
  /\ pc = "idle"
  /\ optimise_routine' = cfg.routine
  /\ consider_comms' = cfg.cc
  /\ n_iterations' = n
  /\ is_membership_fixed' = fixed
  /\ driver' = "optimise_partition"
  /\ pc' = "opt_entry"
  /\ UNCHANGED <<consider_empty_community, rng_seed, rng, world, arg_consider_comms,
                 max_comm_size, routine, cur, nodes_to_visit, i_node, improvement,
                 initial_quality, ret, was_improvement, iter, history>>

\* void optimise_partition(partition, n_iterations)
OptimisePartition2 ==
  \E n \in -1 .. MaxIterations : \E cfg \in DriverConfigs :
    OptimisePartitionEntry(n, NoneFixed(vcount(Base)), cfg)

\* void optimise_partition(partition, n_iterations, is_membership_fixed)
OptimisePartition3 ==
  \E n \in -1 .. MaxIterations : \E cfg \in DriverConfigs :
    \E fixed \in FixedVectors(vcount(Base)) :
      OptimisePartitionEntry(n, fixed, cfg)

\* optimise_partition up to its first call of the optimise routine
OptimisePartitionStart ==
  /\ pc = "opt_entry"
  /\ SetupOptimiser
  /\ was_improvement' = FALSE
  /\ StartRoutine(RoutineOf(optimise_routine), parts[cur])
  /\ invocations' = 1
  /\ UNCHANGED <<optimiser, world, args, driver, cur, nodes_to_visit, i_node,
                 improvement, ret, iter, membership_initial, pass_quality, last_move,
                 node_map, run, first_result, improvements>>

\* The caller of optimise_partition_hierarchical has built its arguments:
\* the layer partitions (over the same graph, with the same membership), the
\* layer weights, and a hierarchy vector that may hold an earlier result.
HierarchicalEntry ==
  /\ pc = "idle"
  /\ \E L \in 1 .. MaxLayers : \E Lw \in 1 .. MaxLayers :
       /\ parts' = [k \in 1 .. L |-> Base]
       /\ partitions' = [k \in 1 .. L |-> k]
       /\ layer_weights' = [k \in 1 .. Lw |-> 1]
  /\ hierarchy' \in {<<>>, <<copy(Base)>>}
  /\ \E cfg \in DriverConfigs :
       /\ optimise_routine' = cfg.routine
       /\ consider_comms' = cfg.cc
  /\ is_membership_fixed' \in FixedVectors(vcount(Base))
  /\ driver' = "optimise_partition_hierarchical"
  /\ pc' = "hier_entry"
  /\ UNCHANGED <<consider_empty_community, rng_seed, rng, arg_consider_comms,
                 max_comm_size, n_iterations, routine, cur, nodes_to_visit, i_node,
                 improvement, initial_quality, ret, was_improvement, iter, history>>

\* HierarchicalThrow with the test of the sizes made after the set-up.
HierarchicalThrowLate ==
  /\ pc = "hier_entry"
  /\ Len(partitions) # Len(layer_weights)
  /\ rng' = rng_init(rng_seed)
  /\ hierarchy' = <<copy(parts[partitions[1]])>>
  /\ pc' = "error"
  /\ UNCHANGED <<optimiser, parts, partitions, layer_weights, args, frame, history>>

\* partitions.size() != layer_weights.size(): throw
HierarchicalThrow ==
  /\ pc = "hier_entry"
  /\ Len(partitions) # Len(layer_weights)
  /\ pc' = "error"
  /\ UNCHANGED <<optimiser, rng, world, args, frame, history>>

\* optimise_partition_hierarchical up to its first call of the optimise routine
HierarchicalStart ==
  /\ pc = "hier_entry"
  /\ Len(partitions) = Len(layer_weights)
  /\ cur' = partitions[1]
  /\ SetupOptimiser
  /\ hierarchy' = ResetHierarchy(hierarchy, parts[partitions[1]])
  /\ was_improvement' = FALSE
  /\ StartRoutine(RoutineOf(optimise_routine), parts[partitions[1]])
  /\ invocations' = 1
  /\ UNCHANGED <<optimiser, parts, partitions, layer_weights, args, driver,
                 nodes_to_visit, i_node, improvement, ret, iter, membership_initial,
                 pass_quality, last_move, node_map, run, first_result, improvements>>

\* The counter i after the invocation that has just returned.
CounterAfter == IF invocations = 1 THEN 1 ELSE iter + 1

\* was_improvement: partition = partition->aggregate(...), and in the
\* hierarchical driver partitions[0] and hierarchy follow
Improved ==
  /\ pc = "returned"
  /\ ret > 0
  /\ was_improvement' = TRUE
  /\ LET new_partition == aggregate(parts[cur])
         id == Len(parts) + 1
     IN /\ parts' = Append(parts, new_partition)
        /\ cur' = id
        /\ node_map' = [v \in DOMAIN node_map |->
                          SuperNode(parts[cur], parts[cur].membership[node_map[v]])]
        /\ IF driver = "optimise_partition_hierarchical"
             THEN /\ partitions' = [partitions EXCEPT ![1] = id]
                  /\ hierarchy' = PushHierarchy(hierarchy, new_partition)
             ELSE UNCHANGED <<partitions, hierarchy>>
  /\ improvements' = improvements + 1
  /\ iter' = CounterAfter
  /\ pc' = "loop"
  /\ UNCHANGED <<optimiser, rng, layer_weights, args, driver, routine, nodes_to_visit,
                 i_node, improvement, initial_quality, ret, membership_initial,
                 invocations, pass_quality, last_move, run, first_result, moved>>

\* The routine returned a delta <= 0.
NotImproved ==
  /\ pc = "returned"
  /\ ~(ret > 0)
  /\ was_improvement' = FALSE
  /\ iter' = CounterAfter
  /\ pc' = "loop"
  /\ UNCHANGED <<optimiser, rng, world, args, driver, routine, cur, nodes_to_visit,
                 i_node, improvement, initial_quality, ret, history>>

\* LoopCondition without the test of was_improvement.
LoopConditionNoStop ==
  IF driver = "optimise_partition_hierarchical"
    THEN TRUE
    ELSE n_iterations < 0 \/ iter < n_iterations

\* The condition of the driver's while loop.
LoopCondition ==
  IF driver = "optimise_partition_hierarchical"
    THEN was_improvement
    ELSE was_improvement /\ (n_iterations < 0 \/ iter < n_iterations)

\* The body of the while loop calls the optimise routine again.
NextInvocation ==
  /\ pc = "loop"
  /\ LoopCondition
  /\ StartRoutine(RoutineOf(optimise_routine), parts[cur])
  /\ invocations' = invocations + 1
  /\ UNCHANGED <<optimiser, rng, world, args, driver, cur, nodes_to_visit, i_node,
                 improvement, ret, was_improvement, iter, membership_initial,
                 pass_quality, last_move, node_map, run, first_result, improvements>>

\* The driver returns; the hierarchical one returns hierarchy.back()->quality().
DriverReturn ==
  /\ pc = "loop"
  /\ ~LoopCondition
  /\ ret' = IF driver = "optimise_partition_hierarchical"
              THEN (IF Len(hierarchy) > 0 THEN quality(hierarchy[Len(hierarchy)]) ELSE 0)
              ELSE 0
  /\ pc' = "done"
  /\ UNCHANGED <<optimiser, rng, world, args, driver, routine, cur, nodes_to_visit,
                 i_node, improvement, initial_quality, was_improvement, iter, history>>

Next ==
  \/ MoveNodes1 \/ MoveNodes2 \/ MoveNodesCC \/ MoveNodes4 \/ MoveNodes5
  \/ MergeNodes2 \/ MergeNodesCC \/ MergeNodes4 \/ MergeNodes5
  \/ Shuffle \/ Visit \/ NextPass \/ Return
  \/ OptimisePartition2 \/ OptimisePartition3 \/ OptimisePartitionStart
  \/ HierarchicalEntry \/ HierarchicalThrow \/ HierarchicalStart
  \/ Improved \/ NotImproved \/ NextInvocation \/ DriverReturn

Spec == Init /\ [][Next]_vars

(***************************************************************************)
(* The same driver call made a second time on the same optimiser: the      *)
(* caller builds the same arguments again (the hierarchy vector keeps what *)
(* the first call left in it), after the optimiser has been used elsewhere *)
(* for up to MaxOtherUses passes, each of which draws one shuffle.         *)
(***************************************************************************)
RECURSIVE Advance(_, _)
Advance(r, k) == IF k = 0 THEN r ELSE Advance(rng_next(r), k - 1)

Layers == IF pc = "error" THEN Len(partitions) ELSE Len(layer_weights)

Outcome ==
  [error      |-> pc = "error",
   membership |-> [k \in 1 .. Layers |-> parts[k].membership],
   vector     |-> [k \in DOMAIN partitions |-> parts[partitions[k]]],
   coarsest   |-> parts[cur],
   hierarchy  |-> hierarchy,
   ret        |-> ret]

Repeat ==
  /\ pc \in {"done", "error"}
  /\ driver # "none"
  /\ run = 1
  /\ run' = 2
  /\ first_result' = Outcome
  /\ \E k \in 0 .. MaxOtherUses : rng' = Advance(rng, k)
  /\ parts' = [k \in 1 .. Layers |-> create(Base.g, membership_initial)]
  /\ partitions' = [k \in 1 .. Layers |-> k]
  /\ node_map' = [v \in Vertices(Base.g) |-> v]
  /\ cur' = 1
  /\ routine' = "none"
  /\ nodes_to_visit' = <<>>
  /\ i_node' = 0
  /\ improvement' = FALSE
  /\ initial_quality' = 0
  /\ ret' = 0
  /\ was_improvement' = FALSE
  /\ iter' = 0
  /\ invocations' = 0
  /\ pass_quality' = 0
  /\ last_move' = NoMove
  /\ improvements' = 0
  /\ moved' = {}
  /\ pc' = IF driver = "optimise_partition" THEN "opt_entry" ELSE "hier_entry"
  /\ UNCHANGED <<optimiser, layer_weights, hierarchy, args, driver, membership_initial>>

NextDet ==
  \/ OptimisePartition2 \/ OptimisePartition3 \/ OptimisePartitionStart
  \/ HierarchicalEntry \/ HierarchicalThrow \/ HierarchicalStart
  \/ Shuffle \/ Visit \/ NextPass \/ Return
  \/ Improved \/ NotImproved \/ NextInvocation \/ DriverReturn
  \/ Repeat

SpecDet == Init /\ [][NextDet]_vars


(***************************************************************************)
(* Properties.                                                             *)
(***************************************************************************)
Returned == pc = "returned" \/ (pc = "done" /\ driver = "none")

PassCompleted == pc = "visit" /\ i_node = Len(nodes_to_visit)

MoveRoutine == routine \in {"move_nodes_impl", "move_nodes4"}

\* C1: a vertex marked in is_membership_fixed has, in the partition the caller
\* passed, the community it had when the call was made, in every state of
\* every routine and driver.
C1_FixedNeverMove ==
  \A v \in Vertices(Base.g) :
    is_membership_fixed[v] => Base.membership[v] = membership_initial[v]

C1_Witness ==
  /\ pc = "done"
  /\ driver = "optimise_partition"
  /\ \E v \in Vertices(Base.g) : is_membership_fixed[v]
  /\ \E v \in Vertices(Base.g) : Base.membership[v] # membership_initial[v]

\* C2: when a 5-argument overload is called with max_comm_size > 0 on a
\* partition whose communities all have csize <= max_comm_size, every community
\* has csize <= max_comm_size when the call returns.
C2_SizeBound ==
  (/\ pc = "done"
   /\ max_comm_size > 0
   /\ \A c \in UsedComms(create(Base.g, membership_initial)) :
        csize(create(Base.g, membership_initial), c) <= max_comm_size)
    => \A c \in UsedComms(Base) : csize(Base, c) <= max_comm_size

\* C3: in every partition of every level each membership lies in
\* 0 .. n_communities() - 1 and n_communities() <= N; a move to the empty
\* community index C happens only when C < N and leaves n_communities() = C + 1.
C3_MembershipRange ==
  /\ \A k \in 1 .. Len(parts) :
       /\ n_communities(parts[k]) <= vcount(parts[k])
       /\ \A v \in Vertices(parts[k].g) :
            0 <= parts[k].membership[v] /\ parts[k].membership[v] < n_communities(parts[k])
  /\ (last_move # NoMove /\ last_move.to = last_move.ncomm)
       => /\ last_move.ncomm < vcount(parts[cur])
          /\ n_communities(parts[cur]) = last_move.ncomm + 1

C3_Witness ==
  /\ last_move # NoMove
  /\ last_move.to = last_move.ncomm
  /\ n_communities(parts[cur]) = vcount(parts[cur])

\* C4: when a pass of the local-move routine is completed, quality() is at
\* least what it was when the pass started.
C4_QualityMonotone ==
  (PassCompleted /\ MoveRoutine) => quality(parts[cur]) >= pass_quality

C4_Witness ==
  PassCompleted /\ MoveRoutine /\ quality(parts[cur]) > pass_quality

\* C5: move_nodes returns at a local optimum: when it returns, no vertex that
\* is not fixed has a candidate community (by the rule of the routine that ran)
\* with a gain > 0, i.e. a further visit of any vertex would move nothing.
C5_LocalOptimumOnReturn ==
  (Returned /\ MoveRoutine)
    => \A i \in Vertices(parts[cur].g) : ~VisitOf(routine, parts[cur], i).moved

\* C6: when optimise_partition returns, two base vertices share a community
\* in the caller's partition iff their super-nodes share a community at the
\* coarsest level reached.
C6_BaseReflectsAllLevels ==
  (pc = "done" /\ driver = "optimise_partition")
    => \A u, v \in Vertices(Base.g) :
         (Base.membership[u] = Base.membership[v])
           <=> (parts[cur].membership[node_map[u]] = parts[cur].membership[node_map[v]])

\* C7: optimise_partition with n_iterations >= 0 calls the optimise routine
\* at most n_iterations times.
C7_IterationBound ==
  /\ (driver = "optimise_partition" /\ n_iterations >= 0)
       => invocations <= n_iterations
  /\ (driver = "optimise_partition" /\ n_iterations < 0 /\ pc = "done")
       => ~was_improvement

\* C8: a driver call repeated on the same optimiser with the same graph,
\* initial membership, configuration and seed ends with the same memberships,
\* partitions vector, hierarchy and returned quality as the first call.
C8_Deterministic ==
  (run = 2 /\ pc \in {"done", "error"}) => Outcome = first_result

C8_Witness ==
  /\ run = 2
  /\ pc = "done"
  /\ rng # rng_init(rng_seed)
  /\ Len(parts) > Layers
  /\ first_result.membership[1] # membership_initial

\* C9: optimise_partition_hierarchical called with partitions and
\* layer_weights of different lengths fails and changes nothing: no partition,
\* no element of the partitions vector, not the hierarchy, not the PRNG.
C9_MismatchRejected ==
  [][(pc = "hier_entry" /\ Len(partitions) # Len(layer_weights))
       => (pc' = "error" /\ UNCHANGED <<parts, partitions, hierarchy, rng>>)]_vars

C9_Witness ==
  /\ pc = "error"
  /\ run = 2
  /\ hierarchy # <<>>
  /\ rng # rng_init(rng_seed)

\* C10: in optimise_partition_hierarchical the layer partitions the caller
\* passed have identical membership vectors in every state.
C10_LockStep ==
  (driver = "optimise_partition_hierarchical" /\ pc # "hier_entry" /\ pc # "error")
    => \A k \in 1 .. Len(layer_weights) : parts[k].membership = parts[1].membership

\* The vertex the for loop visits next, the routine's consider_comms (the
\* argument of the 4-argument forms, the optimiser's for the others) and the
\* existing communities the visit scores.
AtVisit == pc = "visit" /\ i_node < Len(nodes_to_visit)

NextNode == nodes_to_visit[i_node + 1]

ConsiderCommsInEffect ==
  IF routine \in {"move_nodes4", "merge_nodes4"} THEN arg_consider_comms
  ELSE consider_comms

ScoredOf(rt, p, i) ==
  IF rt = "move_nodes_impl" THEN ScoredImpl(p, i)
  ELSE IF rt = "merge_nodes" THEN ScoredMerge(p, i, consider_comms)
  ELSE Scored4(p, i, arg_consider_comms)

SeqToSet(sq) == {sq[k] : k \in 1 .. Len(sq)}

NeighComms(p, i) ==
  {p.membership[u] : u \in {x \in Vertices(p.g) : weight(p.g, i, x) # 0}}

\* C11: when move_nodes visits a vertex that is not fixed, the existing
\* communities it scores are the communities of the vertex's neighbours under
\* ALL_NEIGH_COMMS, every used community (the vertex's own aside) under
\* ALL_COMMS, and exactly one neighbour community under RAND_NEIGH_COMM.
C11_CandidatesFollowConsiderComms ==
  (AtVisit /\ MoveRoutine /\ ~is_membership_fixed[NextNode])
    => LET p == parts[cur]
           i == NextNode
           scored == SeqToSet(ScoredOf(routine, p, i))
           cc == ConsiderCommsInEffect
       IN /\ cc = "ALL_NEIGH_COMMS" => scored = NeighComms(p, i)
          /\ cc = "ALL_COMMS"
               => /\ UsedComms(p) \ {p.membership[i]} \subseteq scored
                  /\ scored \subseteq 0 .. (n_communities(p) - 1)
          /\ (cc = "RAND_NEIGH_COMM" /\ NeighComms(p, i) # {})
               => /\ Cardinality(scored) = 1
                  /\ scored \subseteq NeighComms(p, i)

HierarchicalDone == pc = "done" /\ driver = "optimise_partition_hierarchical"

Singleton(g) == [v \in Vertices(g) |-> v]

\* C12: when optimise_partition_hierarchical returns, hierarchy holds 1 + k
\* snapshots, k the number of invocations that returned a delta > 0: the first
\* is the partition the caller passed, over the base graph, and the j-th after
\* it is the partition the j-th aggregation made, as aggregate returned it;
\* nothing of what hierarchy held before the call is left.
C12_HierarchyShape ==
  HierarchicalDone
    => /\ Len(hierarchy) = 1 + improvements
       /\ hierarchy[1].g = Base.g
       /\ hierarchy[1].membership = membership_initial
       /\ \A j \in 1 .. improvements :
            /\ Len(hierarchy) >= 1 + j
            /\ hierarchy[1 + j].g = parts[Len(layer_weights) + j].g
            /\ hierarchy[1 + j].membership = Singleton(hierarchy[1 + j].g)

C12_Witness ==
  /\ HierarchicalDone
  /\ improvements >= 2
  /\ vcount(hierarchy[3]) < vcount(hierarchy[2])

\* C13: in the hierarchy that optimise_partition_hierarchical builds, each
\* level has at most as many vertices as the level before it and a snapshot
\* quality at least that of the level before it.
C13_HierarchyMonotone ==
  (driver = "optimise_partition_hierarchical" /\ pc \notin {"hier_entry", "error"})
    => \A l \in 1 .. (Len(hierarchy) - 1) :
         /\ vcount(hierarchy[l + 1]) <= vcount(hierarchy[l])
         /\ quality(hierarchy[l + 1]) >= quality(hierarchy[l])

C13_Witness ==
  /\ HierarchicalDone
  /\ Len(hierarchy) >= 3
  /\ quality(hierarchy[3]) > quality(hierarchy[2])
  /\ quality(hierarchy[2]) > quality(hierarchy[1])
  /\ vcount(hierarchy[2]) < vcount(hierarchy[1])

\* What a driver does with the delta an invocation returned: whether it
\* aggregates, and whether it stops.
AggregatesNext ==
  /\ Len(parts') = Len(parts) + 1
  /\ parts'[Len(parts')] = aggregate(parts[cur])

StopsNext == pc' = "done" /\ parts' = parts

IterationsLeft ==
  \/ driver = "optimise_partition_hierarchical"
  \/ n_iterations < 0
  \/ invocations < n_iterations

\* C14, with the bound on the iterations: a driver aggregates iff the
\* invocation that has just returned gave a delta > 0; it calls the optimise
\* routine again iff that
\* delta was > 0 and, in optimise_partition with n_iterations >= 0, fewer than
\* n_iterations invocations have been made; otherwise it returns, with no
\* further move and no further aggregation.
C14_StopOnNoImprovement ==
  [][/\ pc = "returned"
          => /\ AggregatesNext <=> ret > 0
             /\ ~(ret > 0) => parts' = parts
     /\ pc = "loop"
          => /\ (pc' = "pass") <=> (ret > 0 /\ IterationsLeft)
             /\ (pc' # "pass") => StopsNext]_vars

C14_Witness ==
  /\ pc = "done"
  /\ driver = "optimise_partition"
  /\ n_iterations < 0
  /\ invocations >= 3
  /\ improvements = invocations - 1

\* C14: a driver aggregates and calls the optimise routine again iff the
\* invocation that has just returned gave a delta > 0; after the first
\* invocation with a delta <= 0 it returns, with no further move and no
\* further aggregation.
C14_FurtherRoundIffImproved ==
  [][/\ pc = "returned"
          => /\ AggregatesNext <=> ret > 0
             /\ ~(ret > 0) => parts' = parts
     /\ pc = "loop"
          => /\ (pc' = "pass") <=> ret > 0
             /\ ~(ret > 0) => StopsNext]_vars

\* Every community the visit of vertex i scores, in the order of scoring: the
\* existing ones, then the empty one.
CandidatesOf(rt, p, i) ==
  ScoredOf(rt, p, i)
    \o (IF consider_empty_community /\ n_communities(p) < vcount(p)
          THEN <<n_communities(p)>> ELSE <<>>)

MovesNode(i) == parts'[cur].membership[i] # parts[cur].membership[i]

\* The partition as it was before the last move.
BeforeLastMove ==
  [parts[cur] EXCEPT !.membership[last_move.node] = last_move.from,
                     !.ncomm = last_move.ncomm]

\* C15: the community a visited vertex is moved to is one of the scored
\* candidates, its gain is > 0 and no scored candidate has a larger gain; every
\* candidate scored before it has a smaller gain, so the empty community, which
\* is scored last, is chosen only when its gain exceeds that of every existing
\* candidate.
C15_BestCandidate ==
  [][(AtVisit /\ MovesNode(NextNode))
       => LET p == parts[cur]
              i == NextNode
              to == parts'[cur].membership[i]
              cands == CandidatesOf(routine, p, i)
          IN /\ \E k \in 1 .. Len(cands) :
                  /\ cands[k] = to
                  /\ \A j \in 1 .. (k - 1) : diff_move(p, i, cands[j]) < diff_move(p, i, to)
             /\ diff_move(p, i, to) > 0
             /\ \A j \in 1 .. Len(cands) : diff_move(p, i, cands[j]) <= diff_move(p, i, to)
             /\ to = n_communities(p)
                  => \A c \in SeqToSet(ScoredOf(routine, p, i)) :
                       diff_move(p, i, c) < diff_move(p, i, to)]_vars

\* A vertex has been moved to the first of two candidates of the same, maximal
\* gain.
C15_Witness ==
  /\ last_move # NoMove
  /\ LET p == BeforeLastMove
         i == last_move.node
     IN \E c \in SeqToSet(CandidatesOf(routine, p, i)) :
          /\ c # last_move.to
          /\ diff_move(p, i, c) = diff_move(p, i, last_move.to)

\* C16: a visit changes the partition only by one move_node(v, c) with c
\* other than the community of v and diff_move(v, c) > 0 in the partition as
\* it is before the move; a vertex whose candidates all have a gain <= 0
\* keeps its community.
C16_MovesNeedPositiveGain ==
  [][AtVisit
       => LET p == parts[cur]
              i == NextNode
              to == parts'[cur].membership[i]
          IN /\ parts'[cur] # p
                  => /\ parts'[cur] = move_node(p, i, to)
                     /\ to # p.membership[i]
                     /\ diff_move(p, i, to) > 0
             /\ (\A c \in SeqToSet(CandidatesOf(routine, p, i)) : diff_move(p, i, c) <= 0)
                  => parts' = parts]_vars

\* A vertex that is not fixed has been visited and has stayed, with a
\* candidate other than its community of gain 0 and none of a gain > 0.
C16_Witness ==
  /\ pc = "visit"
  /\ i_node >= 1
  /\ last_move = NoMove
  /\ LET p == parts[cur]
         i == nodes_to_visit[i_node]
         cands == SeqToSet(CandidatesOf(routine, p, i))
     IN /\ ~is_membership_fixed[i]
        /\ \E c \in cands : c # p.membership[i] /\ diff_move(p, i, c) = 0
        /\ \A c \in cands : diff_move(p, i, c) <= 0

\* C17: a visit moves a vertex to the empty community C = n_communities()
\* only if consider_empty_community is set and C < N, and under that condition
\* it does move the vertex there whenever the gain of C is > 0 and above that
\* of every existing candidate; with consider_empty_community not set no visit
\* increases n_communities().
C17_EmptyCommunity ==
  [][AtVisit
       => LET p == parts[cur]
              i == NextNode
              C == n_communities(p)
              allowed == consider_empty_community /\ C < vcount(p)
          IN /\ parts'[cur].membership[i] = C => allowed
             /\ (/\ allowed
                 /\ ~is_membership_fixed[i]
                 /\ diff_move(p, i, C) > 0
                 /\ \A c \in SeqToSet(ScoredOf(routine, p, i)) :
                      diff_move(p, i, c) < diff_move(p, i, C))
                  => parts'[cur].membership[i] = C
             /\ ~consider_empty_community => n_communities(parts'[cur]) <= C]_vars

\* With consider_empty_community not set, a vertex that would gain by a
\* community of its own has been visited and has stayed.
C17_Witness ==
  /\ pc = "visit"
  /\ i_node >= 1
  /\ ~consider_empty_community
  /\ last_move = NoMove
  /\ LET p == parts[cur]
         i == nodes_to_visit[i_node]
     IN /\ ~is_membership_fixed[i]
        /\ n_communities(p) < vcount(p)
        /\ diff_move(p, i, n_communities(p)) > 0

MergeRoutine == routine \in {"merge_nodes", "merge_nodes4"}

\* The routine running was entered on a partition of singletons: the caller's
\* at the first level, one made by aggregate above it.
SingletonSeeded ==
  cur <= Len(layer_weights) => membership_initial = Singleton(Base.g)

\* C18: in an invocation of merge_nodes on a partition of singletons no
\* vertex is moved that has been moved before in the invocation.
C18_MergePinning ==
  [][(AtVisit /\ MergeRoutine /\ SingletonSeeded /\ MovesNode(NextNode))
       => NextNode \notin moved]_vars

\* C19: a pass of move_nodes or merge_nodes that has moved a vertex has
\* raised the quality (so that the passes of a call cannot go on for ever on
\* a finite graph) and is followed by another pass; a pass that has moved no
\* vertex is followed by the return.
C19_PassLoop ==
  [][(PassCompleted /\ routine # "none")
       => /\ improvement => (pc' = "pass" /\ quality(parts[cur]) > pass_quality)
          /\ ~improvement => pc' \in {"done", "returned"}]_vars

\* The partition as it was when the routine that is running was entered: the
\* caller's at the first level, the singletons of aggregate above it.
PartitionAtEntry ==
  IF cur <= Len(layer_weights) THEN create(Base.g, membership_initial)
  ELSE create(parts[cur].g, Singleton(parts[cur].g))

\* C20: the value move_nodes or merge_nodes returns is quality() after the
\* call minus quality() before it; it is > 0 iff the call has moved a vertex
\* and 0 iff it has moved none.
C20_ReturnedDelta ==
  Returned
    => /\ ret = quality(parts[cur]) - quality(PartitionAtEntry)
       /\ ret > 0 <=> moved # {}
       /\ ret = 0 <=> moved = {}

C20_Witness ==
  /\ Returned
  /\ Cardinality(moved) >= 2
  /\ ret > 0
  /\ quality(PartitionAtEntry) # 0

\* The base vertices that make up vertex s of the level of cur.
BaseVerticesOf(s) == {v \in Vertices(Base.g) : node_map[v] = s}

\* C21: at a level above the first, the super-node the loop of a driver's
\* routine comes to is skipped iff one of the base vertices it is made of is
\* marked in the is_membership_fixed the caller passed.
C21_FixedAtCoarseLevels ==
  (AtVisit /\ driver # "none" /\ cur > Len(layer_weights))
    => (IsSkipped(is_membership_fixed, NextNode)
          <=> \E v \in BaseVerticesOf(NextNode) : is_membership_fixed[v])

====
